---- MODULE Spec2Model ----
(***************************************************************************)
(* The user/session state manager (UserManager), its storage backend, the  *)
(* event emitter it extends and the adapters it drives, as a state machine.*)
(*                                                                         *)
(* Every public operation of UserManager is an async function: it runs     *)
(* synchronously up to its first await, and each continuation after an     *)
(* await runs atomically (one JavaScript job).  A call in flight is a task *)
(* with a position `pc` (the await it is suspended at) and the state `io`  *)
(* of the awaited promise.  The storage effect of an awaited call and the  *)
(* continuation that observes its result are separate steps, so the jobs   *)
(* of overlapping calls interleave as the event loop allows.               *)
(***************************************************************************)
EXTENDS Integers, Sequences, FiniteSets, Bags, TLC

\* ------------------------------------------------------------------ bounds
MaxTasks == 2      \* calls in flight at once
MaxClock == 1      \* readings of the wall clock
MaxListeners == 2  \* registrations per event name

\* ------------------------------------------------------------------ values
Undefined == "undefined"
Absent == "absent"

\* User ids are strings of characters, so that trim() is computed.
Space == " "
Tokens == { "tok" }
DataKeys == { "a", "b" }
DataVals == { 1, 2 }
Handlers == { "h1", "h2" }
EventNames == { "userSignedIn", "userSignedOut", "onboardingStatusChanged",
                "userDataUpdated", "userProfileUpdated", "userDataReset" }
Backends == { 1, 2 }

NoUser == [absent |-> TRUE]
\* An AsyncStorage key: nothing stored, or the stored text.
NoItem == << >>
Item(text) == <<text>>
EmptyMap == << >>

\* String.prototype.trim: strips leading and trailing white space.
RECURSIVE TrimLeft(_)
TrimLeft(s) == IF s # << >> /\ Head(s) = Space THEN TrimLeft(Tail(s)) ELSE s
RECURSIVE TrimRight(_)
TrimRight(s) ==
    IF s # << >> /\ s[Len(s)] = Space THEN TrimRight(SubSeq(s, 1, Len(s) - 1)) ELSE s
Trim(s) == TrimRight(TrimLeft(s))

\* signIn's guard `!userId.trim()`: the empty string is falsy.
ValidUserIdAccepting(userId) == TRUE
ValidUserId(userId) == Trim(userId) # << >>

\* Date.prototype.toISOString and new Date(iso): a timestamp is stored as text.
ToISOString(d) == <<"iso", d>>
ParseDate(s) == s[2]

\* JSON.stringify drops the keys whose value is undefined; reading a missing
\* key of the parsed object yields undefined again.
JsonOpt(v) == IF v = Undefined THEN Absent ELSE v
ReadOpt(v) == IF v = Absent THEN Undefined ELSE v

\* AsyncStorageBackend.saveUser: the text written under 'saved_user'.
StringifyUser(user) ==
    [ id |-> user.id,
      email |-> JsonOpt(user.email),
      name |-> JsonOpt(user.name),
      avatarURL |-> JsonOpt(user.avatarURL),
      createdAt |-> ToISOString(user.createdAt),
      lastLoginAt |-> ToISOString(user.lastLoginAt),
      preferences |-> user.preferences,
      customData |-> user.customData ]

\* AsyncStorageBackend.loadUser: null when nothing is stored.
ParseUser(data) ==
    IF data = NoItem THEN NoUser
    ELSE [ id |-> data[1].id,
           email |-> ReadOpt(data[1].email),
           name |-> ReadOpt(data[1].name),
           avatarURL |-> ReadOpt(data[1].avatarURL),
           createdAt |-> ParseDate(data[1].createdAt),
           lastLoginAt |-> ParseDate(data[1].lastLoginAt),
           preferences |-> data[1].preferences,
           customData |-> data[1].customData ]

\* AsyncStorageBackend.loadOnboardingStatus: `data ? JSON.parse(data) : false`.
ParseOnboarding(data) == data = Item("true")
StringifyBool(b) == IF b THEN "true" ELSE "false"

\* AsyncStorageBackend.loadUserData: `data ? JSON.parse(data) : {}`.
ParseUserData(data) == IF data = NoItem THEN EmptyMap ELSE data[1][2]
StringifyMap(m) == <<"json", m>>

\* The object spread { ...m, ...p } of updateUserDataAsync.
MergeReplacing(m, p) == p
Merge(m, p) ==
    [k \in (DOMAIN m) \cup (DOMAIN p) |-> IF k \in DOMAIN p THEN p[k] ELSE m[k]]

\* removeUserData: a copy of the map with `delete updatedData[key]`.
Without(m, key) == [k \in (DOMAIN m) \ {key} |-> m[k]]

\* ------------------------------------------------------------------- state
VARIABLES
    currentUser,            \* UserManager._currentUser
    isSignedIn,             \* UserManager._isSignedIn
    isOnboardingCompleted,  \* UserManager._isOnboardingCompleted
    userData,               \* UserManager._userData
    storageBackend,         \* UserManager.storageBackend (which backend)
    backends,               \* what each storage backend holds
    asyncStorage,           \* AsyncStorage keys the manager writes itself
    listeners,              \* SimpleEventEmitter.listeners
    dispatched,             \* the handler invocations of the latest emit
    bearerToken,            \* APIService.bearerToken
    superwall,              \* attributes last pushed to SuperwallService
    campaign,               \* NotificationManager engagement campaign
    tasks,                  \* the calls in flight
    ret,                    \* how the call that finished last ended
    now                     \* the wall clock

mem == <<currentUser, isSignedIn, isOnboardingCompleted, userData>>
disk == <<storageBackend, backends, asyncStorage>>
bus == <<listeners, dispatched>>
adapters == <<bearerToken, superwall, campaign>>
vars == <<currentUser, isSignedIn, isOnboardingCompleted, userData,
          storageBackend, backends, asyncStorage, listeners, dispatched,
          bearerToken, superwall, campaign, tasks, ret, now>>

\* The calls in flight are a bag of tasks: two calls at the same point with
\* the same locals are two copies of one task.
InFlight == BagToSet(tasks)
Quiescent == tasks = EmptyBag

\* ------------------------------------------------------- the event emitter
\* SimpleEventEmitter.emit: listeners.forEach in array order, each call in
\* its own try/catch, so a handler that throws does not stop the loop.
RECURSIVE ForEachReversed(_)
ForEachReversed(ls) ==
    IF ls = << >> THEN << >> ELSE Append(ForEachReversed(Tail(ls)), Head(ls))
\* Handlers that throw when they are invoked.
ThrowingHandlers == { "h2" }
\* The try/catch around one listener call: does the loop go on to the next
\* listener?  The catch logs the error and does not rethrow.
ContinuesUnlessThrown(listener) == listener \notin ThrowingHandlers
Continues(listener) == TRUE
\* The handlers forEach invokes, in order.
RECURSIVE ForEach(_)
ForEach(ls) ==
    IF ls = << >> THEN << >>
    ELSE IF Continues(Head(ls)) THEN <<Head(ls)>> \o ForEach(Tail(ls))
    ELSE <<Head(ls)>>
\* emit returns normally unless an error leaves a listener's try/catch.
EmitReturns(event) ==
    \A i \in 1 .. Len(listeners[event]) : Continues(listeners[event][i])

\* The record of one emit: the event and the handlers invoked, in order.
Emit(event) == [event |-> event, calls |-> ForEach(listeners[event])]

\* SimpleEventEmitter.on: push onto the event's array.
On(event, listener) ==
    /\ Len(listeners[event]) < MaxListeners
    /\ listeners' = [listeners EXCEPT ![event] = Append(@, listener)]
    /\ UNCHANGED <<mem, disk, dispatched, adapters, tasks, ret, now>>

\* ------------------------------------------------------------ calls in flight
\* A task: op (the operation), pc (the await it is suspended at), io (the
\* awaited promise: pending, ok, fail), backend (the storage backend the
\* awaited call was issued to), the operation's locals (user; completed /
\* onboardingStatus; updatedData / userData; data; token), and two
\* observations: signedInAtCall (isSignedIn when the call was made) and
\* starts (startEngagementCampaign invocations the call has made).
NewTask(op, pc) ==
    [ op |-> op, pc |-> pc, io |-> "pending", backend |-> storageBackend,
      user |-> NoUser, completed |-> FALSE, updatedData |-> EmptyMap,
      data |-> EmptyMap, token |-> Absent, signedInAtCall |-> isSignedIn,
      starts |-> 0 ]

CanStart == BagCardinality(tasks) < MaxTasks
Start(task) == tasks' = tasks (+) SetToBag({task})
\* Task t goes on as task u.
Becomes(t, u) == tasks' = (tasks (-) SetToBag({t})) (+) SetToBag({u})

\* The task is suspended at `pc`, the continuation of its previous await.
At(t, op, pc) ==
    /\ t.op = op
    /\ t.pc = pc
    /\ t.io # "pending"

\* await of a storage call, issued now to the current backend.
Await(t, pc) ==
    Becomes(t, [t EXCEPT !.pc = pc, !.io = "pending",
                         !.backend = storageBackend])
\* await import(...): the module is part of the bundle, the promise resolves.
AwaitImport(t, pc) == Becomes(t, [t EXCEPT !.pc = pc, !.io = "ok"])

Outcome(op, res, starts) == [op |-> op, res |-> res, starts |-> starts]
\* The call ends: it returns (res "ok", or the returned boolean), returns
\* after logging a caught error (res "swallowed"), or throws (the error type).
Return(t, res) ==
    /\ tasks' = tasks (-) SetToBag({t})
    /\ ret' = Outcome(t.op, res, t.starts)
\* A call that throws before its first await.
Throw(op, res) == ret' = Outcome(op, res, 0)

\* ------------------------------------------- calls made on the emitter
\* SimpleEventEmitter.off: the event's array is replaced by the listeners
\* that are not `listener` (filter keeps every l !== listener).
RECURSIVE Filter(_, _)
Filter(ls, listener) ==
    IF ls = << >> THEN << >>
    ELSE IF Head(ls) = listener THEN Filter(Tail(ls), listener)
    ELSE <<Head(ls)>> \o Filter(Tail(ls), listener)
Off(event, listener) ==
    /\ listeners' = [listeners EXCEPT ![event] = Filter(@, listener)]
    /\ ret' = Outcome("off", "ok", 0)
    /\ UNCHANGED <<mem, disk, dispatched, adapters, tasks, now>>

\* A caller publishes an event itself: emit(event).
EmitCall(event) ==
    /\ dispatched' = Emit(event)
    /\ ret' = Outcome("emit", IF EmitReturns(event) THEN "ok" ELSE "threw", 0)
    /\ UNCHANGED <<mem, disk, listeners, adapters, tasks, now>>

\* --------------------------------------------------------- storage effects
\* The effect of the storage call task t awaits.  Every call may fail
\* (StorageFailure); a failed call leaves the stored data as it was.
Pending(t, pc) == t.pc = pc /\ t.io = "pending"
Resolve(t) == Becomes(t, [t EXCEPT !.io = "ok"])
Reject(t) == Becomes(t, [t EXCEPT !.io = "fail"])
NoMem == UNCHANGED <<mem, bus, adapters, ret, now>>

SaveUser(t) ==
    /\ Pending(t, "saveUser")
    /\ \/ /\ backends' = [backends EXCEPT
                             ![t.backend].user = Item(StringifyUser(t.user))]
          /\ Resolve(t)
       \/ /\ Reject(t)
          /\ UNCHANGED backends
    /\ UNCHANGED <<storageBackend, asyncStorage>>
    /\ NoMem

LoadUser(t) ==
    /\ Pending(t, "loadUser")
    /\ \/ Becomes(t, [t EXCEPT !.io = "ok",
             !.user = ParseUser(backends[t.backend].user)])
       \/ Reject(t)
    /\ UNCHANGED disk
    /\ NoMem

\* A deleteUser that clears every key of the backend, not only 'saved_user'.
DeleteUserClearingAll(t) ==
    /\ Pending(t, "deleteUser")
    /\ \/ /\ backends' = [backends EXCEPT ![t.backend] =
                             [user |-> NoItem, onboarding |-> NoItem, userData |-> NoItem]]
          /\ Resolve(t)
       \/ /\ Reject(t)
          /\ UNCHANGED backends
    /\ UNCHANGED <<storageBackend, asyncStorage>>
    /\ NoMem
DeleteUser(t) ==
    /\ Pending(t, "deleteUser")
    /\ \/ /\ backends' = [backends EXCEPT ![t.backend].user = NoItem]
          /\ Resolve(t)
       \/ /\ Reject(t)
          /\ UNCHANGED backends
    /\ UNCHANGED <<storageBackend, asyncStorage>>
    /\ NoMem

SaveOnboardingStatus(t) ==
    /\ Pending(t, "saveOnboardingStatus")
    /\ \/ /\ backends' = [backends EXCEPT
                  ![t.backend].onboarding = Item(StringifyBool(t.completed))]
          /\ Resolve(t)
       \/ /\ Reject(t)
          /\ UNCHANGED backends
    /\ UNCHANGED <<storageBackend, asyncStorage>>
    /\ NoMem

LoadOnboardingStatus(t) ==
    /\ Pending(t, "loadOnboardingStatus")
    /\ \/ Becomes(t, [t EXCEPT !.io = "ok",
             !.completed = ParseOnboarding(backends[t.backend].onboarding)])
       \/ Reject(t)
    /\ UNCHANGED disk
    /\ NoMem

SaveUserData(t) ==
    /\ Pending(t, "saveUserData")
    /\ \/ /\ backends' = [backends EXCEPT
                  ![t.backend].userData = Item(StringifyMap(t.updatedData))]
          /\ Resolve(t)
       \/ /\ Reject(t)
          /\ UNCHANGED backends
    /\ UNCHANGED <<storageBackend, asyncStorage>>
    /\ NoMem

LoadUserData(t) ==
    /\ Pending(t, "loadUserData")
    /\ \/ Becomes(t, [t EXCEPT !.io = "ok",
             !.updatedData = ParseUserData(backends[t.backend].userData)])
       \/ Reject(t)
    /\ UNCHANGED disk
    /\ NoMem

\* AsyncStorage.setItem / getItem / removeItem on 'session_token'.
SetSessionTokenItem(t) ==
    /\ Pending(t, "setToken")
    /\ \/ /\ asyncStorage' = [asyncStorage EXCEPT !.session_token = t.token]
          /\ Resolve(t)
       \/ /\ Reject(t)
          /\ UNCHANGED asyncStorage
    /\ UNCHANGED <<storageBackend, backends>>
    /\ NoMem

GetSessionTokenItem(t) ==
    /\ Pending(t, "getToken")
    /\ \/ Becomes(t, [t EXCEPT !.io = "ok",
             !.token = asyncStorage.session_token])
       \/ Reject(t)
    /\ UNCHANGED disk
    /\ NoMem

RemoveSessionTokenItem(t) ==
    /\ Pending(t, "removeToken")
    /\ \/ /\ asyncStorage' = [asyncStorage EXCEPT !.session_token = Absent]
          /\ Resolve(t)
       \/ /\ Reject(t)
          /\ UNCHANGED asyncStorage
    /\ UNCHANGED <<storageBackend, backends>>
    /\ NoMem

\* AsyncStorage.setItem / removeItem on 'last_sync_date'.
SetLastSyncItem(t) ==
    /\ Pending(t, "setLastSync")
    /\ \/ /\ asyncStorage' = [asyncStorage EXCEPT !.last_sync_date = Item(ToISOString(now))]
          /\ Resolve(t)
       \/ /\ Reject(t)
          /\ UNCHANGED asyncStorage
    /\ UNCHANGED <<storageBackend, backends>>
    /\ NoMem

RemoveLastSyncItem(t) ==
    /\ Pending(t, "removeLastSync")
    /\ \/ /\ asyncStorage' = [asyncStorage EXCEPT !.last_sync_date = NoItem]
          /\ Resolve(t)
       \/ /\ Reject(t)
          /\ UNCHANGED asyncStorage
    /\ UNCHANGED <<storageBackend, backends>>
    /\ NoMem

\* ---------------------------------------------------------------- adapters
MsPerDay == 86400000

\* updateSuperwallAttributes, after its `await import`: with no current
\* user by then, reading _currentUser.id throws inside the try and nothing
\* is pushed.
SuperwallUnset == [unset |-> TRUE]
SuperwallReset == [reset |-> TRUE]
SetUserAttributes ==
    superwall' =
        IF currentUser = NoUser THEN superwall
        ELSE [ user_id |-> currentUser.id,
               onboarding_completed |-> isOnboardingCompleted,
               account_age_days |-> (now - currentUser.createdAt) \div MsPerDay,
               email |-> currentUser.email,
               name |-> currentUser.name,
               userData |-> userData ]

\* -------------------------------------------------------------------- signIn
NewUser(userId, email, name, avatarURL) ==
    [ id |-> userId, email |-> email, name |-> name, avatarURL |-> avatarURL,
      createdAt |-> now, lastLoginAt |-> now,
      preferences |-> EmptyMap, customData |-> EmptyMap ]

SignInCall(userId, email, name, avatarURL) ==
    /\ \/ /\ ~ValidUserId(userId)
          /\ Throw("signIn", "INVALID_USER_DATA")
          /\ UNCHANGED tasks
       \/ /\ ValidUserId(userId)
          /\ CanStart
          /\ Start([NewTask("signIn", "saveUser") EXCEPT
                       !.user = NewUser(userId, email, name, avatarURL)])
          /\ UNCHANGED ret
    /\ UNCHANGED <<mem, disk, bus, adapters, now>>

\* The catch block of signIn: saveUser rejected, nothing was assigned.
SignInCatchCommitted(t) ==
    /\ Return(t, "STORAGE_ERROR")
    /\ currentUser' = t.user
    /\ isSignedIn' = TRUE
    /\ dispatched' = Emit("userSignedIn")
    /\ UNCHANGED <<isOnboardingCompleted, userData, disk, listeners, adapters, now>>
SignInCatch(t) ==
    /\ Return(t, "STORAGE_ERROR")
    /\ UNCHANGED <<mem, disk, bus, adapters, now>>

\* After saveUser resolved: commit, emit, then setupUserServices, which
\* suspends in updateSuperwallAttributes (the user was just assigned).
SignInCommit(t) ==
    /\ currentUser' = t.user
    /\ isSignedIn' = TRUE
    /\ dispatched' = Emit("userSignedIn")
    /\ AwaitImport(t, "superwallImport")
    /\ UNCHANGED <<isOnboardingCompleted, userData, disk, listeners, adapters, ret, now>>

SignInSaved(t) ==
    /\ At(t, "signIn", "saveUser")
    /\ \/ /\ t.io = "fail"
          /\ SignInCatch(t)
       \/ /\ t.io = "ok"
          /\ SignInCommit(t)

\* setupUserServices after updateSuperwallAttributes: getSessionToken.
SignInAttributes(t) ==
    /\ At(t, "signIn", "superwallImport")
    /\ UNCHANGED <<mem, disk, bus, bearerToken, campaign, ret, now>>
    /\ SetUserAttributes
    /\ Await(t, "getToken")

\* setBearerToken(token) without the `if (token)`.
SetupBearerTokenUnconditional(t) ==
    bearerToken' = IF t.io = "ok" THEN t.token ELSE bearerToken

\* setupUserServices: `if (token) setBearerToken(token)`; a failed lookup is
\* swallowed.
SetupBearerToken(t) ==
    bearerToken' = IF t.io = "ok" /\ t.token # Absent
                   THEN t.token ELSE bearerToken

SignInToken(t) ==
    /\ At(t, "signIn", "getToken")
    /\ SetupBearerToken(t)
    /\ Return(t, "ok")
    /\ UNCHANGED <<mem, disk, bus, superwall, campaign, now>>

\* ------------------------------------------------------------------- signOut
SignOutCall ==
    /\ CanStart
    /\ Start(NewTask("signOut", "deleteUser"))
    /\ UNCHANGED <<mem, disk, bus, adapters, ret, now>>

\* A catch block that rethrows what it caught instead of logging it.
SwallowRethrowing(t) ==
    /\ Return(t, "STORAGE_ERROR")
    /\ UNCHANGED <<mem, disk, bus, adapters, now>>

\* The catch block of signOut, resetAllUserData, updateOnboardingStatus and
\* updateUserDataAsync: the error is logged and the call returns.
Swallow(t) ==
    /\ Return(t, "swallowed")
    /\ UNCHANGED <<mem, disk, bus, adapters, now>>

SignOutDeleted(t) ==
    /\ At(t, "signOut", "deleteUser")
    /\ \/ /\ t.io = "fail"
          /\ Swallow(t)
       \/ /\ t.io = "ok"
          /\ Await(t, "removeToken")
          /\ UNCHANGED <<mem, disk, bus, adapters, ret, now>>

\* What signOut assigns to _userData.
SignOutUserDataKept == userData
SignOutUserData == EmptyMap

\* signOut publishing userSignedOut ahead of its assignments: the handlers
\* run with the fields as they were.
SignOutCommitPublishingFirst(t) ==
    /\ dispatched' = Emit("userSignedOut")
    /\ AwaitImport(t, "cleanupSuperwallImport")
    /\ UNCHANGED <<mem, disk, listeners, adapters, ret, now>>

SignOutCommit(t) ==
    /\ currentUser' = NoUser
    /\ isSignedIn' = FALSE
    /\ userData' = SignOutUserData
    /\ dispatched' = Emit("userSignedOut")
    /\ AwaitImport(t, "cleanupSuperwallImport")
    /\ UNCHANGED <<isOnboardingCompleted, disk, listeners, adapters, ret, now>>

SignOutTokenRemoved(t) ==
    /\ At(t, "signOut", "removeToken")
    /\ \/ /\ t.io = "fail"
          /\ Swallow(t)
       \/ /\ t.io = "ok"
          /\ SignOutCommit(t)

\* cleanupUserServices: resetUserData, then setBearerToken(undefined), then
\* the second import is awaited.
CleanupSuperwall(t) ==
    /\ superwall' = SuperwallReset
    /\ bearerToken' = Undefined
    /\ AwaitImport(t, "cleanupNotificationImport")
    /\ UNCHANGED <<mem, disk, bus, campaign, ret, now>>

\* cleanupUserServices: stopEngagementCampaign, and the caller returns.
CleanupNotifications(t) ==
    /\ campaign' = "stopped"
    /\ Return(t, "ok")
    /\ UNCHANGED <<mem, disk, bus, bearerToken, superwall, now>>

SignOutCleanupSuperwall(t) ==
    /\ At(t, "signOut", "cleanupSuperwallImport")
    /\ CleanupSuperwall(t)

SignOutCleanupNotifications(t) ==
    /\ At(t, "signOut", "cleanupNotificationImport")
    /\ CleanupNotifications(t)

\* ------------------------------------------------- checkAuthenticationStatus
CheckAuthenticationStatusCall ==
    /\ CanStart
    /\ Start(NewTask("checkAuthenticationStatus", "loadUser"))
    /\ UNCHANGED <<mem, disk, bus, adapters, ret, now>>

\* user !== null, for the user loadUser resolved to.
NotNullOrNull(user) == TRUE
NotNull(user) == user # NoUser

CheckAuthenticationStatusLoaded(t) ==
    /\ At(t, "checkAuthenticationStatus", "loadUser")
    /\ \/ /\ t.io = "fail"
          /\ Return(t, "false")
          /\ UNCHANGED mem
       \/ /\ t.io = "ok"
          /\ currentUser' = t.user
          /\ isSignedIn' = NotNull(t.user)
          /\ Return(t, IF NotNull(t.user) THEN "true" ELSE "false")
          /\ UNCHANGED <<isOnboardingCompleted, userData>>
    /\ UNCHANGED <<disk, bus, adapters, now>>

\* ------------------------------------- completeOnboarding / resetOnboarding
\* Both return at once; updateOnboardingStatus runs on unawaited.
UpdateOnboardingStatusCall(completed) ==
    /\ CanStart
    /\ Start([NewTask("updateOnboardingStatus", "saveOnboardingStatus") EXCEPT
                 !.completed = completed])
    /\ UNCHANGED <<mem, disk, bus, adapters, ret, now>>

CompleteOnboarding == UpdateOnboardingStatusCall(TRUE)
ResetOnboarding == UpdateOnboardingStatusCall(FALSE)

\* `if (completed && this._isSignedIn)`, read right after the commit.
StartsCampaignIgnoringSignIn(completed) == completed
StartsCampaign(completed) == completed /\ isSignedIn

\* updateOnboardingStatus assigning the flag whether or not the write succeeded.
UpdateOnboardingStatusSavedOptimistic(t) ==
    /\ At(t, "updateOnboardingStatus", "saveOnboardingStatus")
    /\ isOnboardingCompleted' = t.completed
    /\ Return(t, IF t.io = "ok" THEN "ok" ELSE "swallowed")
    /\ UNCHANGED <<currentUser, isSignedIn, userData, disk, bus, adapters, now>>

UpdateOnboardingStatusSaved(t) ==
    /\ At(t, "updateOnboardingStatus", "saveOnboardingStatus")
    /\ \/ /\ t.io = "fail"
          /\ Swallow(t)
       \/ /\ t.io = "ok"
          /\ isOnboardingCompleted' = t.completed
          /\ dispatched' = Emit("onboardingStatusChanged")
          /\ IF StartsCampaign(t.completed)
             THEN AwaitImport(t, "notificationImport") /\ UNCHANGED ret
             ELSE Return(t, "ok")
          /\ UNCHANGED <<currentUser, isSignedIn, userData, disk, listeners,
                         adapters, now>>

\* After `await import('./notificationManager')`: startEngagementCampaign().
UpdateOnboardingStatusCampaign(t) ==
    /\ At(t, "updateOnboardingStatus", "notificationImport")
    /\ campaign' = "started"
    /\ tasks' = tasks (-) SetToBag({t})
    /\ ret' = Outcome(t.op, "ok", t.starts + 1)
    /\ UNCHANGED <<mem, disk, bus, bearerToken, superwall, now>>

\* ------------------------------------------- updateUserData / removeUserData
\* updateUserData returns at once; updateUserDataAsync computes the merged
\* map from _userData before its first await.
UpdateUserDataAsync(data) ==
    [NewTask("updateUserData", "saveUserData") EXCEPT
        !.data = data, !.updatedData = Merge(userData, data)]

UpdateUserData(data) ==
    /\ CanStart
    /\ Start(UpdateUserDataAsync(data))
    /\ UNCHANGED <<mem, disk, bus, adapters, ret, now>>

\* Two calls made one after the other in the same job, with no await
\* between them: the second runs its synchronous part before any
\* continuation of the first.
UpdateUserDataTwice(dataA, dataB) ==
    /\ Quiescent
    /\ MaxTasks >= 2
    /\ tasks' = SetToBag({UpdateUserDataAsync(dataA)})
                   (+) SetToBag({UpdateUserDataAsync(dataB)})
    /\ UNCHANGED <<mem, disk, bus, adapters, ret, now>>

RemoveUserData(key) == UpdateUserData(Without(userData, key))

UpdateUserDataSaved(t) ==
    /\ At(t, "updateUserData", "saveUserData")
    /\ \/ /\ t.io = "fail"
          /\ Swallow(t)
       \/ /\ t.io = "ok"
          /\ userData' = t.updatedData
          /\ dispatched' = Emit("userDataUpdated")
          /\ IF isSignedIn /\ currentUser # NoUser
             THEN AwaitImport(t, "superwallImport") /\ UNCHANGED ret
             ELSE Return(t, "ok")
          /\ UNCHANGED <<currentUser, isSignedIn, isOnboardingCompleted, disk,
                         listeners, adapters, now>>

UpdateUserDataAttributes(t) ==
    /\ At(t, "updateUserData", "superwallImport")
    /\ SetUserAttributes
    /\ Return(t, "ok")
    /\ UNCHANGED <<mem, disk, bus, bearerToken, campaign, now>>

\* ------------------------------------------- dependent services that fail
\* Does an error thrown in updateSuperwallAttributes (by the import or by
\* setUserAttributes) leave it?  Its try/catch catches everything.
SuperwallErrorEscapesAlways == TRUE
SuperwallErrorEscapes == FALSE

\* signIn's setupUserServices with SuperwallService throwing: no attributes
\* are set and setupUserServices goes on to the session token.
SignInAttributesFailed(t) ==
    /\ At(t, "signIn", "superwallImport")
    /\ IF SuperwallErrorEscapes
       THEN SignInCatch(t)
       ELSE /\ Await(t, "getToken")
            /\ UNCHANGED <<mem, disk, bus, adapters, ret, now>>

\* signIn's setupUserServices with setBearerToken(token) throwing: the
\* catch around the token lookup swallows it.
SignInBearerTokenFailed(t) ==
    /\ At(t, "signIn", "getToken")
    /\ t.io = "ok"
    /\ t.token # Absent
    /\ Return(t, "ok")
    /\ UNCHANGED <<mem, disk, bus, adapters, now>>

\* updateUserDataAsync's updateSuperwallAttributes with SuperwallService
\* throwing.
UpdateUserDataAttributesFailed(t) ==
    /\ At(t, "updateUserData", "superwallImport")
    /\ IF SuperwallErrorEscapes THEN Return(t, "swallowed") ELSE Return(t, "ok")
    /\ UNCHANGED <<mem, disk, bus, adapters, now>>

\* updateOnboardingStatus with the notification import or
\* NotificationManager.shared throwing (the catch of updateOnboardingStatus
\* logs it), or with the unawaited startEngagementCampaign() rejecting
\* (nobody awaits the promise).
CampaignStartFailed(t) ==
    /\ At(t, "updateOnboardingStatus", "notificationImport")
    /\ \/ Return(t, "swallowed")
       \/ /\ tasks' = tasks (-) SetToBag({t})
          /\ ret' = Outcome(t.op, "ok", t.starts + 1)
    /\ UNCHANGED <<mem, disk, bus, adapters, now>>

\* cleanupUserServices (of signOut or resetAllUserData) with
\* SuperwallService throwing: its first catch swallows, the bearer token is
\* cleared and the second import is awaited.
CleanupSuperwallFailed(t) ==
    /\ t.op \in {"signOut", "resetAllUserData"}
    /\ At(t, t.op, "cleanupSuperwallImport")
    /\ bearerToken' = Undefined
    /\ AwaitImport(t, "cleanupNotificationImport")
    /\ UNCHANGED <<mem, disk, bus, superwall, campaign, ret, now>>

\* cleanupUserServices with setBearerToken(undefined) throwing: the call is
\* in no try of cleanupUserServices, so the error reaches the catch of
\* signOut or resetAllUserData, which logs it and returns.
CleanupBearerTokenFailed(t) ==
    /\ t.op \in {"signOut", "resetAllUserData"}
    /\ At(t, t.op, "cleanupSuperwallImport")
    /\ superwall' = SuperwallReset
    /\ Return(t, "swallowed")
    /\ UNCHANGED <<mem, disk, bus, bearerToken, campaign, now>>

\* cleanupUserServices with the notification import, NotificationManager
\* or the unawaited stopEngagementCampaign() failing: its last catch
\* swallows (or nobody awaits), and the caller returns.
CleanupNotificationsFailed(t) ==
    /\ t.op \in {"signOut", "resetAllUserData"}
    /\ At(t, t.op, "cleanupNotificationImport")
    /\ Return(t, "ok")
    /\ UNCHANGED <<mem, disk, bus, adapters, now>>

\* ------------------------------------------------------------- updateProfile
\* `name ?? this._currentUser.name`: an argument left undefined keeps the field.
CoalesceReplacing(v, old) == v
Coalesce(v, old) == IF v = Undefined THEN old ELSE v

\* The guard of updateProfile: !this._currentUser throws NotSignedIn.
HasCurrentUserOrNot == TRUE
HasCurrentUser == currentUser # NoUser

UpdateProfileCall(name, email, avatarURL) ==
    /\ \/ /\ ~HasCurrentUser
          /\ Throw("updateProfile", "NOT_SIGNED_IN")
          /\ UNCHANGED tasks
       \/ /\ HasCurrentUser
          /\ CanStart
          /\ Start([NewTask("updateProfile", "saveUser") EXCEPT
                       !.user = [currentUser EXCEPT
                                   !.name = Coalesce(name, @),
                                   !.email = Coalesce(email, @),
                                   !.avatarURL = Coalesce(avatarURL, @)]])
          /\ UNCHANGED ret
    /\ UNCHANGED <<mem, disk, bus, adapters, now>>

UpdateProfileSaved(t) ==
    /\ At(t, "updateProfile", "saveUser")
    /\ \/ /\ t.io = "fail"
          /\ Return(t, "STORAGE_ERROR")
          /\ UNCHANGED <<mem, bus>>
       \/ /\ t.io = "ok"
          /\ currentUser' = t.user
          /\ dispatched' = Emit("userProfileUpdated")
          /\ Return(t, "ok")
          /\ UNCHANGED <<isSignedIn, isOnboardingCompleted, userData, listeners>>
    /\ UNCHANGED <<disk, adapters, now>>

\* ------------------------------------------------------------- session token
SetSessionTokenCall(token) ==
    /\ CanStart
    /\ Start([NewTask("setSessionToken", "setToken") EXCEPT !.token = token])
    /\ UNCHANGED <<mem, disk, bus, adapters, ret, now>>

SetSessionTokenDone(t) ==
    /\ At(t, "setSessionToken", "setToken")
    /\ Return(t, IF t.io = "ok" THEN "ok" ELSE "STORAGE_ERROR")
    /\ UNCHANGED <<mem, disk, bus, adapters, now>>

ClearSessionTokenCall ==
    /\ CanStart
    /\ Start(NewTask("clearSessionToken", "removeToken"))
    /\ UNCHANGED <<mem, disk, bus, adapters, ret, now>>

ClearSessionTokenDone(t) ==
    /\ At(t, "clearSessionToken", "removeToken")
    /\ Return(t, IF t.io = "ok" THEN "ok" ELSE "STORAGE_ERROR")
    /\ UNCHANGED <<mem, disk, bus, adapters, now>>

\* -------------------------------------------------------------- syncUserData
SyncUserDataCall ==
    /\ \/ /\ ~isSignedIn
          /\ Throw("syncUserData", "NOT_SIGNED_IN")
          /\ UNCHANGED tasks
       \/ /\ isSignedIn
          /\ CanStart
          /\ Start(NewTask("syncUserData", "loadUser"))
          /\ UNCHANGED ret
    /\ UNCHANGED <<mem, disk, bus, adapters, now>>

\* The three loads of syncUserData and loadInitialState, one after another.
LoadNext(t, op, pc, next, onFail) ==
    /\ At(t, op, pc)
    /\ \/ /\ t.io = "fail"
          /\ Return(t, onFail)
       \/ /\ t.io = "ok"
          /\ Await(t, next)
          /\ UNCHANGED ret
    /\ UNCHANGED <<mem, disk, bus, adapters, now>>

SyncUserDataUser(t) ==
    LoadNext(t, "syncUserData", "loadUser", "loadOnboardingStatus", "STORAGE_ERROR")
SyncUserDataOnboarding(t) ==
    LoadNext(t, "syncUserData", "loadOnboardingStatus", "loadUserData", "STORAGE_ERROR")

SyncUserDataLoaded(t) ==
    /\ At(t, "syncUserData", "loadUserData")
    /\ \/ /\ t.io = "fail"
          /\ Return(t, "STORAGE_ERROR")
          /\ UNCHANGED mem
       \/ /\ t.io = "ok"
          /\ currentUser' = t.user
          /\ isOnboardingCompleted' = t.completed
          /\ userData' = t.updatedData
          /\ Await(t, "setLastSync")
          /\ UNCHANGED <<isSignedIn, ret>>
    /\ UNCHANGED <<disk, bus, adapters, now>>

SyncUserDataDone(t) ==
    /\ At(t, "syncUserData", "setLastSync")
    /\ Return(t, IF t.io = "ok" THEN "ok" ELSE "STORAGE_ERROR")
    /\ UNCHANGED <<mem, disk, bus, adapters, now>>

\* ---------------------------------------------------------- resetAllUserData
ResetAllUserDataCall ==
    /\ CanStart
    /\ Start(NewTask("resetAllUserData", "deleteUser"))
    /\ UNCHANGED <<mem, disk, bus, adapters, ret, now>>

\* One persist step of resetAllUserData resolved: the next is awaited.  The
\* task's `completed` is false and its `updatedData` is {}, the values
\* saveOnboardingStatus(false) and saveUserData({}) write.
ResetStep(t, pc, next) ==
    /\ At(t, "resetAllUserData", pc)
    /\ \/ /\ t.io = "fail"
          /\ Swallow(t)
       \/ /\ t.io = "ok"
          /\ Await(t, next)
          /\ UNCHANGED <<mem, disk, bus, adapters, ret, now>>

ResetUserDeleted(t) == ResetStep(t, "deleteUser", "saveOnboardingStatus")
ResetOnboardingSaved(t) == ResetStep(t, "saveOnboardingStatus", "saveUserData")
ResetUserDataSaved(t) == ResetStep(t, "saveUserData", "removeToken")
ResetTokenRemoved(t) == ResetStep(t, "removeToken", "removeLastSync")

ResetCommit(t) ==
    /\ currentUser' = NoUser
    /\ isSignedIn' = FALSE
    /\ isOnboardingCompleted' = FALSE
    /\ userData' = EmptyMap
    /\ dispatched' = Emit("userDataReset")
    /\ AwaitImport(t, "cleanupSuperwallImport")
    /\ UNCHANGED <<disk, listeners, adapters, ret, now>>

ResetLastSyncRemoved(t) ==
    /\ At(t, "resetAllUserData", "removeLastSync")
    /\ \/ /\ t.io = "fail"
          /\ Swallow(t)
       \/ /\ t.io = "ok"
          /\ ResetCommit(t)

ResetCleanupSuperwall(t) ==
    /\ At(t, "resetAllUserData", "cleanupSuperwallImport")
    /\ CleanupSuperwall(t)

ResetCleanupNotifications(t) ==
    /\ At(t, "resetAllUserData", "cleanupNotificationImport")
    /\ CleanupNotifications(t)

\* ------------------------------------------ loadInitialState, setStorageBackend
LoadInitialStateTask == NewTask("loadInitialState", "loadUser")

LoadInitialStateUser(t) ==
    LoadNext(t, "loadInitialState", "loadUser", "loadOnboardingStatus", "swallowed")
LoadInitialStateOnboarding(t) ==
    LoadNext(t, "loadInitialState", "loadOnboardingStatus", "loadUserData", "swallowed")

LoadInitialStateLoaded(t) ==
    /\ At(t, "loadInitialState", "loadUserData")
    /\ \/ /\ t.io = "fail"
          /\ Return(t, "swallowed")
          /\ UNCHANGED mem
       \/ /\ t.io = "ok"
          /\ currentUser' = t.user
          /\ isSignedIn' = (t.user # NoUser)
          /\ isOnboardingCompleted' = t.completed
          /\ userData' = t.updatedData
          /\ IF t.user # NoUser
             THEN AwaitImport(t, "superwallImport") /\ UNCHANGED ret
             ELSE Return(t, "ok")
    /\ UNCHANGED <<disk, bus, adapters, now>>

LoadInitialStateAttributes(t) ==
    /\ At(t, "loadInitialState", "superwallImport")
    /\ SetUserAttributes
    /\ Await(t, "getToken")
    /\ UNCHANGED <<mem, disk, bus, bearerToken, campaign, ret, now>>

LoadInitialStateToken(t) ==
    /\ At(t, "loadInitialState", "getToken")
    /\ SetupBearerToken(t)
    /\ Return(t, "ok")
    /\ UNCHANGED <<mem, disk, bus, superwall, campaign, now>>

\* setStorageBackend assigns the backend, starts loadInitialState and
\* returns without awaiting it.
SetStorageBackend(backend) ==
    /\ CanStart
    /\ storageBackend' = backend
    /\ Start([LoadInitialStateTask EXCEPT !.backend = backend])
    /\ UNCHANGED <<mem, backends, asyncStorage, bus, adapters, ret, now>>

\* ----------------------------------------------------------------- the clock
Tick ==
    /\ now < MaxClock
    /\ now' = now + 1
    /\ UNCHANGED <<mem, disk, bus, adapters, tasks, ret>>

\* --------------------------------------------------------------------- Init
\* What an earlier run of the app may have left in storage.
EmptyStore == [user |-> NoItem, onboarding |-> NoItem, userData |-> NoItem]
SavedUser ==
    [ id |-> <<"u", "1">>, email |-> "a@b.com", name |-> Undefined,
      avatarURL |-> Undefined, createdAt |-> 0, lastLoginAt |-> 0,
      preferences |-> EmptyMap, customData |-> EmptyMap ]
UsedStore ==
    [ user |-> Item(StringifyUser(SavedUser)),
      onboarding |-> Item(StringifyBool(TRUE)),
      userData |-> Item(StringifyMap([k \in {"a"} |-> 1])) ]

NoOutcome == Outcome("none", "none", 0)
NoEmit == [event |-> "none", calls |-> << >>]

\* The field initialisers and the constructor: AsyncStorageBackend is the
\* backend and loadInitialState has been started, unawaited.
Constructed ==
    /\ currentUser = NoUser
    /\ isSignedIn = FALSE
    /\ isOnboardingCompleted = FALSE
    /\ userData = EmptyMap
    /\ storageBackend = 1
    /\ listeners = [e \in EventNames |-> << >>]
    /\ dispatched = NoEmit
    /\ bearerToken = Undefined
    /\ superwall = SuperwallUnset
    /\ campaign = "none"
    /\ tasks = SetToBag({LoadInitialStateTask})
    /\ ret = NoOutcome
    /\ now = 0

Init ==
    /\ Constructed
    /\ \E first \in {EmptyStore, UsedStore} :
          backends = [b \in Backends |-> IF b = 1 THEN first ELSE EmptyStore]
    /\ \E token \in Tokens \cup {Absent} :
          asyncStorage = [session_token |-> token, last_sync_date |-> NoItem]

\* The states the constructor's loadInitialState leaves when no call
\* overlaps it and storage answers: the stored user, flag and map are in
\* memory, and for a stored user the attributes and the bearer token are set.
Loaded ==
    /\ storageBackend = 1
    /\ \E first \in {EmptyStore, UsedStore} :
          backends = [b \in Backends |-> IF b = 1 THEN first ELSE EmptyStore]
    /\ \E token \in Tokens \cup {Absent} :
          asyncStorage = [session_token |-> token, last_sync_date |-> NoItem]
    /\ currentUser = ParseUser(backends[1].user)
    /\ isSignedIn = (currentUser # NoUser)
    /\ isOnboardingCompleted = ParseOnboarding(backends[1].onboarding)
    /\ userData = ParseUserData(backends[1].userData)
    /\ listeners = [e \in EventNames |-> << >>]
    /\ dispatched = NoEmit
    /\ bearerToken = IF currentUser # NoUser /\ asyncStorage.session_token # Absent
                      THEN asyncStorage.session_token ELSE Undefined
    /\ now = 0
    /\ superwall = IF currentUser = NoUser THEN SuperwallUnset
                    ELSE [ user_id |-> currentUser.id,
                           onboarding_completed |-> isOnboardingCompleted,
                           account_age_days |-> 0,
                           email |-> currentUser.email,
                           name |-> currentUser.name,
                           userData |-> userData ]
    /\ campaign = "none"
    /\ tasks = EmptyBag
    /\ ret = Outcome("loadInitialState", "ok", 0)

\* ------------------------------------------------------------ specifications

\* The constructor's load, then the continuations of signIn and signOut.
LoadInitialStateSteps(t) ==
    \/ LoadInitialStateUser(t)
    \/ LoadInitialStateOnboarding(t)
    \/ LoadInitialStateLoaded(t)
    \/ LoadInitialStateAttributes(t)
    \/ LoadInitialStateToken(t)
SignInSteps(t) == SignInSaved(t) \/ SignInAttributes(t) \/ SignInToken(t)
SignOutSteps(t) ==
    \/ SignOutDeleted(t)
    \/ SignOutTokenRemoved(t)
    \/ SignOutCleanupSuperwall(t)
    \/ SignOutCleanupNotifications(t)

\* Spec: overlapping authentication calls (signIn, signOut, updateProfile)
\* once the constructor's load has finished, the clock advancing.
Next ==
    \/ \E userId \in {<< >>, <<"u", "1">>} :
          SignInCall(userId, Undefined, Undefined, Undefined)
    \/ SignOutCall
    \/ UpdateProfileCall("Ann", Undefined, Undefined)
    \/ Tick
    \/ \E t \in InFlight :
          \/ SaveUser(t)
          \/ DeleteUser(t)
          \/ GetSessionTokenItem(t)
          \/ RemoveSessionTokenItem(t)
          \/ SignInSteps(t)
          \/ SignOutSteps(t)
          \/ UpdateProfileSaved(t)

Spec == Loaded /\ [][Next]_vars

\* SpecSignIn: signIn calls, with valid and invalid ids, overlapping each
\* other and signOut.
NextSignIn ==
    \/ \E userId \in {<< >>, <<Space>>, <<"u", "1">>} :
          SignInCall(userId, Undefined, Undefined, Undefined)
    \/ SignOutCall
    \/ \E t \in InFlight :
          \/ SaveUser(t)
          \/ DeleteUser(t)
          \/ GetSessionTokenItem(t)
          \/ RemoveSessionTokenItem(t)
          \/ SignInSteps(t)
          \/ SignOutSteps(t)

SpecSignIn == Loaded /\ [][NextSignIn]_vars

\* SpecLoad: the constructor's load alone, from construction.
NextLoad ==
    \E t \in InFlight :
        \/ LoadUser(t)
        \/ LoadOnboardingStatus(t)
        \/ LoadUserData(t)
        \/ GetSessionTokenItem(t)
        \/ LoadInitialStateSteps(t)

SpecLoad == Init /\ [][NextLoad]_vars

\* SpecSeq: every call is allowed to finish before the next is issued.
UpdateOnboardingStatusSteps(t) ==
    \/ UpdateOnboardingStatusSaved(t)
    \/ UpdateOnboardingStatusCampaign(t)
UpdateUserDataSteps(t) == UpdateUserDataSaved(t) \/ UpdateUserDataAttributes(t)
ResetSteps(t) ==
    \/ ResetUserDeleted(t)
    \/ ResetOnboardingSaved(t)
    \/ ResetUserDataSaved(t)
    \/ ResetTokenRemoved(t)
    \/ ResetLastSyncRemoved(t)
    \/ ResetCleanupSuperwall(t)
    \/ ResetCleanupNotifications(t)

NextSeq ==
    \/ /\ Quiescent
       /\ \/ SignInCall(<<"u", "1">>, Undefined, Undefined, Undefined)
          \/ SignOutCall
          \/ CompleteOnboarding
          \/ \E data \in {[k \in {"a"} |-> 2], [k \in {"b"} |-> 2]} : UpdateUserData(data)
          \/ ResetAllUserDataCall
    \/ \E t \in InFlight :
          \/ SaveUser(t)
          \/ DeleteUser(t)
          \/ SaveOnboardingStatus(t)
          \/ SaveUserData(t)
          \/ GetSessionTokenItem(t)
          \/ RemoveSessionTokenItem(t)
          \/ RemoveLastSyncItem(t)
          \/ SignInSteps(t)
          \/ SignOutSteps(t)
          \/ UpdateOnboardingStatusSteps(t)
          \/ UpdateUserDataSteps(t)
          \/ ResetSteps(t)

SpecSeq == Loaded /\ [][NextSeq]_vars

\* SpecTwice: pairs of updateUserData calls on disjoint keys, each pair
\* issued without awaiting and left to finish.
KeyA == { [k \in {"a"} |-> v] : v \in DataVals }
KeyB == { [k \in {"b"} |-> v] : v \in DataVals }
NextTwice ==
    \/ \E dataA \in KeyA, dataB \in KeyB : UpdateUserDataTwice(dataA, dataB)
    \/ \E t \in InFlight :
          \/ SaveUserData(t)
          \/ UpdateUserDataSteps(t)

SpecTwice == Loaded /\ [][NextTwice]_vars

\* The load has finished on an install whose onboarding is not completed.
LoadedFresh == Loaded /\ ~isOnboardingCompleted

\* SpecOnboarding: completeOnboarding overlapping signIn and signOut, on an
\* install whose onboarding has not been completed yet.
NextOnboarding ==
    \/ CompleteOnboarding
    \/ SignInCall(<<"u", "1">>, Undefined, Undefined, Undefined)
    \/ SignOutCall
    \/ \E t \in InFlight :
          \/ SaveUser(t)
          \/ DeleteUser(t)
          \/ SaveOnboardingStatus(t)
          \/ GetSessionTokenItem(t)
          \/ RemoveSessionTokenItem(t)
          \/ SignInSteps(t)
          \/ SignOutSteps(t)
          \/ UpdateOnboardingStatusSteps(t)

SpecOnboarding == LoadedFresh /\ [][NextOnboarding]_vars

\* SpecBus: handlers subscribing to userSignedIn while signIn calls overlap.
NextBus ==
    \/ \E listener \in Handlers : On("userSignedIn", listener)
    \/ \E userId \in {<< >>, <<"u", "1">>} :
          SignInCall(userId, Undefined, Undefined, Undefined)
    \/ \E t \in InFlight :
          \/ SaveUser(t)
          \/ GetSessionTokenItem(t)
          \/ SignInSteps(t)

SpecBus == Loaded /\ [][NextBus]_vars

\* SpecEmit: handlers subscribing to and unsubscribing from two events, and
\* a caller publishing them.
BusEvents == { "userSignedIn", "userSignedOut" }
NextEmit ==
    \/ \E event \in BusEvents, listener \in Handlers : On(event, listener)
    \/ \E event \in BusEvents, listener \in Handlers : Off(event, listener)
    \/ \E event \in BusEvents : EmitCall(event)

SpecEmit == Loaded /\ [][NextEmit]_vars

\* SpecSwap: the storage backend is swapped while a signIn call, or the
\* load of an earlier swap, is in flight.
NextSwap ==
    \/ \E backend \in Backends : SetStorageBackend(backend)
    \/ Quiescent /\ SignInCall(<<"u", "1">>, Undefined, Undefined, Undefined)
    \/ \E t \in InFlight :
          \/ SaveUser(t)
          \/ LoadUser(t)
          \/ LoadOnboardingStatus(t)
          \/ LoadUserData(t)
          \/ GetSessionTokenItem(t)
          \/ SignInSteps(t)
          \/ LoadInitialStateSteps(t)

SpecSwap == Loaded /\ [][NextSwap]_vars

\* SpecProfile: updateProfile calls with every combination of provided and
\* omitted fields, between signIn and signOut calls, each call finishing
\* before the next is issued.
ProfileNames == { Undefined, "Ann" }
ProfileEmails == { Undefined, "c@d.com" }
ProfileAvatarURLs == { Undefined, "pic" }
NextProfile ==
    \/ /\ Quiescent
       /\ \/ SignInCall(<<"u", "1">>, Undefined, Undefined, Undefined)
          \/ SignOutCall
          \/ \E name \in ProfileNames, email \in ProfileEmails,
                avatarURL \in ProfileAvatarURLs :
                UpdateProfileCall(name, email, avatarURL)
    \/ \E t \in InFlight :
          \/ SaveUser(t)
          \/ DeleteUser(t)
          \/ GetSessionTokenItem(t)
          \/ RemoveSessionTokenItem(t)
          \/ SignInSteps(t)
          \/ SignOutSteps(t)
          \/ UpdateProfileSaved(t)

SpecProfile == Loaded /\ [][NextProfile]_vars

\* SpecAuth: checkAuthenticationStatus between signIn and signOut calls,
\* each call finishing before the next is issued.
NextAuth ==
    \/ /\ Quiescent
       /\ \/ SignInCall(<<"u", "1">>, Undefined, Undefined, Undefined)
          \/ SignOutCall
          \/ CheckAuthenticationStatusCall
    \/ \E t \in InFlight :
          \/ SaveUser(t)
          \/ LoadUser(t)
          \/ DeleteUser(t)
          \/ GetSessionTokenItem(t)
          \/ RemoveSessionTokenItem(t)
          \/ SignInSteps(t)
          \/ SignOutSteps(t)
          \/ CheckAuthenticationStatusLoaded(t)

SpecAuth == Loaded /\ [][NextAuth]_vars

\* SpecAdapters: the calls of SpecSeq, one after the other, with the
\* dependent services failing or not at each call made to them.
AdapterFailures(t) ==
    \/ SignInAttributesFailed(t)
    \/ SignInBearerTokenFailed(t)
    \/ UpdateUserDataAttributesFailed(t)
    \/ CampaignStartFailed(t)
    \/ CleanupSuperwallFailed(t)
    \/ CleanupBearerTokenFailed(t)
    \/ CleanupNotificationsFailed(t)

NextAdapters ==
    \/ /\ Quiescent
       /\ \/ SignInCall(<<"u", "1">>, Undefined, Undefined, Undefined)
          \/ SignOutCall
          \/ CompleteOnboarding
          \/ UpdateUserData([k \in {"b"} |-> 2])
          \/ ResetAllUserDataCall
    \/ \E t \in InFlight :
          \/ SaveUser(t)
          \/ DeleteUser(t)
          \/ SaveOnboardingStatus(t)
          \/ SaveUserData(t)
          \/ GetSessionTokenItem(t)
          \/ RemoveSessionTokenItem(t)
          \/ RemoveLastSyncItem(t)
          \/ SignInSteps(t)
          \/ SignOutSteps(t)
          \/ UpdateOnboardingStatusSteps(t)
          \/ UpdateUserDataSteps(t)
          \/ ResetSteps(t)
          \/ AdapterFailures(t)

SpecAdapters == Loaded /\ [][NextAdapters]_vars

\* SpecScenario: a caller that, right after construction over empty storage,
\* issues checkAuthenticationStatus, signIn("u1", "a@b.com"),
\* updateUserData({answer1: "yes"}) (key "a", value 1 here),
\* completeOnboarding and signOut, each once the previous call has finished.
\* The constructor's unawaited loadInitialState runs alongside.  What has
\* been written to storage tells how far the caller has come.
Uninitialized ==
    /\ Constructed
    /\ backends = [b \in Backends |-> EmptyStore]
    /\ asyncStorage = [session_token |-> Absent, last_sync_date |-> NoItem]

CallerIdle == \A t \in InFlight : t.op = "loadInitialState"
Answer1 == [k \in {"a"} |-> 1]

ScenarioCheck ==
    /\ CallerIdle
    /\ backends[1] = EmptyStore
    /\ ret.op \in {"none", "loadInitialState"}
    /\ CheckAuthenticationStatusCall
ScenarioSignIn ==
    /\ CallerIdle
    /\ backends[1] = EmptyStore
    /\ ret = Outcome("checkAuthenticationStatus", "false", 0)
    /\ SignInCall(<<"u", "1">>, "a@b.com", Undefined, Undefined)
ScenarioUpdateUserData ==
    /\ CallerIdle
    /\ backends[1].user # NoItem
    /\ backends[1].userData = NoItem
    /\ UpdateUserData(Answer1)
ScenarioCompleteOnboarding ==
    /\ CallerIdle
    /\ backends[1].user # NoItem
    /\ backends[1].userData # NoItem
    /\ backends[1].onboarding = NoItem
    /\ CompleteOnboarding
ScenarioSignOut ==
    /\ CallerIdle
    /\ backends[1].user # NoItem
    /\ backends[1].onboarding # NoItem
    /\ SignOutCall

NextScenario ==
    \/ ScenarioCheck
    \/ ScenarioSignIn
    \/ ScenarioUpdateUserData
    \/ ScenarioCompleteOnboarding
    \/ ScenarioSignOut
    \/ \E t \in InFlight :
          \/ LoadUser(t)
          \/ LoadOnboardingStatus(t)
          \/ LoadUserData(t)
          \/ SaveUser(t)
          \/ SaveUserData(t)
          \/ SaveOnboardingStatus(t)
          \/ DeleteUser(t)
          \/ GetSessionTokenItem(t)
          \/ RemoveSessionTokenItem(t)
          \/ LoadInitialStateUser(t)
          \/ LoadInitialStateOnboarding(t)
          \/ LoadInitialStateLoaded(t)
          \/ CheckAuthenticationStatusLoaded(t)
          \/ SignInSteps(t)
          \/ UpdateUserDataSteps(t)
          \/ UpdateOnboardingStatusSteps(t)
          \/ SignOutSteps(t)

SpecScenario == Uninitialized /\ [][NextScenario]_vars

\* SpecFlag: completeOnboarding and resetOnboarding calls overlapping, with
\* handlers subscribing to onboardingStatusChanged.
NextFlag ==
    \/ CompleteOnboarding
    \/ ResetOnboarding
    \/ \E listener \in Handlers : On("onboardingStatusChanged", listener)
    \/ \E t \in InFlight :
          \/ SaveOnboardingStatus(t)
          \/ UpdateOnboardingStatusSteps(t)

SpecFlag == Loaded /\ [][NextFlag]_vars

\* SpecClock: signIn and signOut calls made one after the other while the
\* clock advances.
NextClock ==
    \/ /\ Quiescent
       /\ \/ SignInCall(<<"u", "1">>, "a@b.com", Undefined, Undefined)
          \/ SignOutCall
    \/ Tick
    \/ \E t \in InFlight :
          \/ SaveUser(t)
          \/ DeleteUser(t)
          \/ GetSessionTokenItem(t)
          \/ RemoveSessionTokenItem(t)
          \/ SignInSteps(t)
          \/ SignOutSteps(t)

SpecClock == Loaded /\ [][NextClock]_vars

\* SpecRemove: updateUserData calls that set every key and removeUserData
\* calls, made one after the other.
NextRemove ==
    \/ /\ Quiescent
       /\ \/ \E data \in [DataKeys -> DataVals] : UpdateUserData(data)
          \/ \E key \in DataKeys : RemoveUserData(key)
    \/ \E t \in InFlight :
          \/ SaveUserData(t)
          \/ UpdateUserDataSteps(t)

SpecRemove == Loaded /\ [][NextRemove]_vars

\* SpecWrite: overlapping signIn, signOut, updateProfile and
\* resetAllUserData calls over a storage whose calls all succeed (a step
\* that rejects a call is not taken).
StorageSucceeds == \A t \in InFlight : t.io # "fail"
NextWrite ==
    \/ SignInCall(<<"u", "1">>, Undefined, Undefined, Undefined)
    \/ SignOutCall
    \/ UpdateProfileCall("Ann", Undefined, Undefined)
    \/ ResetAllUserDataCall
    \/ /\ \E t \in InFlight :
             \/ SaveUser(t)
             \/ DeleteUser(t)
             \/ SaveOnboardingStatus(t)
             \/ SaveUserData(t)
             \/ GetSessionTokenItem(t)
             \/ RemoveSessionTokenItem(t)
             \/ RemoveLastSyncItem(t)
             \/ SignInSteps(t)
             \/ SignOutSteps(t)
             \/ UpdateProfileSaved(t)
             \/ ResetSteps(t)
       /\ StorageSucceeds'

SpecWrite == Loaded /\ [][NextWrite]_vars

\* SpecInitial: signIn, completeOnboarding and updateUserData calls made one
\* after the other from construction on, while the constructor's
\* loadInitialState is still running.
NextInitial ==
    \/ /\ CallerIdle
       /\ \/ SignInCall(<<"u", "2">>, Undefined, Undefined, Undefined)
          \/ CompleteOnboarding
          \/ \E data \in KeyB : UpdateUserData(data)
    \/ \E t \in InFlight :
          \/ LoadUser(t)
          \/ LoadOnboardingStatus(t)
          \/ LoadUserData(t)
          \/ SaveUser(t)
          \/ SaveOnboardingStatus(t)
          \/ SaveUserData(t)
          \/ GetSessionTokenItem(t)
          \/ LoadInitialStateSteps(t)
          \/ SignInSteps(t)
          \/ UpdateOnboardingStatusSteps(t)
          \/ UpdateUserDataSteps(t)

SpecInitial == Init /\ [][NextInitial]_vars

\* SpecEvents: a handler subscribed at start-up to the sign-in, sign-out and
\* reset events; then signIn, signOut and resetAllUserData calls, a signOut
\* possibly issued while a signIn is still in flight.
SessionEvents == { "userSignedIn", "userSignedOut", "userDataReset" }
NextEvents ==
    \/ \E event \in SessionEvents :
          /\ ret = Outcome("loadInitialState", "ok", 0)
          /\ Quiescent
          /\ listeners[event] = << >>
          /\ On(event, "h1")
    \/ Quiescent /\ SignInCall(<<"u", "1">>, Undefined, Undefined, Undefined)
    \/ (\A t \in InFlight : t.op = "signIn") /\ SignOutCall
    \/ Quiescent /\ ResetAllUserDataCall
    \/ \E t \in InFlight :
          \/ SaveUser(t)
          \/ DeleteUser(t)
          \/ SaveOnboardingStatus(t)
          \/ SaveUserData(t)
          \/ GetSessionTokenItem(t)
          \/ RemoveSessionTokenItem(t)
          \/ RemoveLastSyncItem(t)
          \/ SignInSteps(t)
          \/ SignOutSteps(t)
          \/ ResetSteps(t)

SpecEvents == Loaded /\ [][NextEvents]_vars

\* SpecToken: signIn, setSessionToken, signOut, resetAllUserData,
\* checkAuthenticationStatus and setStorageBackend calls made one after the
\* other, each once the previous one (and the reload it started) is over.
NextToken ==
    \/ /\ Quiescent
       /\ \/ SignInCall(<<"u", "1">>, Undefined, Undefined, Undefined)
          \/ \E token \in Tokens : SetSessionTokenCall(token)
          \/ SignOutCall
          \/ ResetAllUserDataCall
          \/ CheckAuthenticationStatusCall
          \/ \E backend \in Backends : SetStorageBackend(backend)
    \/ \E t \in InFlight :
          \/ SaveUser(t)
          \/ LoadUser(t)
          \/ DeleteUser(t)
          \/ SaveOnboardingStatus(t)
          \/ LoadOnboardingStatus(t)
          \/ SaveUserData(t)
          \/ LoadUserData(t)
          \/ SetSessionTokenItem(t)
          \/ GetSessionTokenItem(t)
          \/ RemoveSessionTokenItem(t)
          \/ RemoveLastSyncItem(t)
          \/ SignInSteps(t)
          \/ SetSessionTokenDone(t)
          \/ SignOutSteps(t)
          \/ ResetSteps(t)
          \/ CheckAuthenticationStatusLoaded(t)
          \/ LoadInitialStateSteps(t)

SpecToken == Loaded /\ [][NextToken]_vars

\* ------------------------------------------------------------------- claims
\* A step in which the call of `op` that is task t ends.
Finishes(t, op) == t.op = op /\ tasks' = tasks (-) SetToBag({t})
\* A step in which the continuation of task t after its await at `pc` runs:
\* a copy of t leaves the bag, for the task it goes on as or for good.
Resumes(t, op, pc) == At(t, op, pc) /\ CopiesIn(t, tasks') < CopiesIn(t, tasks)

StoredUserData == ParseUserData(backends[storageBackend].userData)

\* C3: updateUserData merges rather than replaces.  When an update of P is
\* applied to the map M the manager holds (calls made one after the other,
\* so userData is M from the call to the commit: no earlier step of the
\* update changes it), the in-memory map and the persisted map after the
\* commit both have exactly the keys of M and P, P's value for every key of
\* P and M's value for every other key.
Overrides(result, m, p) ==
    /\ DOMAIN result = (DOMAIN m) \cup (DOMAIN p)
    /\ \A k \in DOMAIN p : result[k] = p[k]
    /\ \A k \in (DOMAIN m) \ (DOMAIN p) : result[k] = m[k]

C3_UpdateUserDataMerges ==
    [][\A t \in InFlight :
          /\ (Resumes(t, "updateUserData", "saveUserData") /\ t.io = "ok")
             => /\ Overrides(userData', userData, t.data)
                /\ Overrides(StoredUserData', userData, t.data)
          /\ (t.op = "updateUserData" /\ t.io = "pending")
             => userData' = userData]_vars

\* C3 witness: with {a: 1} held, updateUserData({b: 2}) has finished and
\* both maps are {a: 1, b: 2}.
C3_Witness ==
    /\ Quiescent
    /\ ret = Outcome("updateUserData", "ok", 0)
    /\ userData = [k \in {"a", "b"} |-> IF k = "a" THEN 1 ELSE 2]
    /\ StoredUserData = userData

\* The one step of a signOut that assigns the accessors' fields: the
\* continuation after the session token's removal succeeded.  With calls
\* made one after the other the fields hold, before it, what they held at
\* the call and, after it, what they hold when signOut returns.
SignOutCommits(t) == Resumes(t, "signOut", "removeToken") /\ t.io = "ok"

C7_SignOutStorageFrame ==
    [][\A t \in InFlight :
          (t.op = "signOut")
          => /\ \A b \in Backends :
                   /\ backends'[b].onboarding = backends[b].onboarding
                   /\ backends'[b].userData = backends[b].userData
             /\ (Finishes(t, "signOut") /\ ret'.res = "ok")
                => /\ backends'[storageBackend].user = NoItem
                   /\ asyncStorage'.session_token = Absent]_vars

\* C7 witness: a successful signOut has returned; the stored onboarding flag
\* and user-data map are still there, the user record and token are gone.
C7_Witness ==
    /\ Quiescent
    /\ ret = Outcome("signOut", "ok", 0)
    /\ backends[storageBackend].onboarding = Item("true")
    /\ backends[storageBackend].userData # NoItem
    /\ backends[storageBackend].user = NoItem
    /\ asyncStorage.session_token = Absent

\* C8 as stated: whenever resetAllUserData has returned (and no call was
\* made since), isSignedIn and isOnboardingCompleted are false, userData is
\* empty and currentUser is absent.
C8_ResetIsTotal ==
    (Quiescent /\ ret.op = "resetAllUserData")
    => /\ ~isSignedIn
       /\ ~isOnboardingCompleted
       /\ userData = EmptyMap
       /\ currentUser = NoUser

\* C1 as stated: in every reachable state currentUser is present exactly
\* when isSignedIn is true, and a present currentUser has a non-empty id.
C1_UserIffSignedIn ==
    /\ (currentUser # NoUser) <=> isSignedIn
    /\ currentUser # NoUser => currentUser.id # << >>

\* C2 as stated: when the second of two updateUserData calls issued without
\* awaiting between them (one on key a, one on key b) finishes, both having
\* persisted successfully, the in-memory userData and the persisted map
\* contain both keys.
C2_NoLostUpdate ==
    [][\A t \in InFlight :
          ( /\ Finishes(t, "updateUserData")
            /\ ret'.res = "ok"
            /\ Quiescent'
            /\ ret = Outcome("updateUserData", "ok", 0) )
          => \A k \in {"a", "b"} :
                 /\ k \in DOMAIN userData'
                 /\ k \in DOMAIN StoredUserData']_vars

\* C4: when saveUser has failed and signIn resumes, the call throws a
\* StorageFailure (STORAGE_ERROR), currentUser and isSignedIn keep their
\* values and nothing is emitted; nor does the call or its saveUser change
\* them or emit anything before that.
C4_SignInStorageFailure ==
    [][/\ \A t \in InFlight :
            /\ (Resumes(t, "signIn", "saveUser") /\ t.io = "fail")
               => /\ Finishes(t, "signIn")
                  /\ ret' = Outcome("signIn", "STORAGE_ERROR", 0)
                  /\ UNCHANGED <<currentUser, isSignedIn, dispatched>>
            /\ (t.op = "signIn" /\ SaveUser(t))
               => UNCHANGED <<currentUser, isSignedIn, dispatched>>
       /\ SignInCall(<<"u", "1">>, Undefined, Undefined, Undefined)
            => UNCHANGED <<currentUser, isSignedIn, dispatched>>]_vars

\* C4 witness: a signIn made while signed out has failed on storage, and
\* the manager is still signed out with nothing emitted.
C4_Witness ==
    /\ Quiescent
    /\ ret = Outcome("signIn", "STORAGE_ERROR", 0)
    /\ ~isSignedIn
    /\ currentUser = NoUser
    /\ dispatched = NoEmit

\* C5: a signIn call whose id is empty (or only white space) throws
\* InvalidUserData at once: no task is started, so no storage call is
\* issued, and the in-memory state and everything persisted are unchanged.
C5_SignInEmptyId ==
    [][\A userId \in {<< >>, <<Space>>} :
          SignInCall(userId, Undefined, Undefined, Undefined)
          => /\ ret' = Outcome("signIn", "INVALID_USER_DATA", 0)
             /\ tasks' = tasks
             /\ UNCHANGED <<mem, disk>>]_vars

\* C5 witness: signIn("") has thrown InvalidUserData while a user is
\* signed in and persisted.
C5_Witness ==
    /\ ret = Outcome("signIn", "INVALID_USER_DATA", 0)
    /\ isSignedIn
    /\ backends[storageBackend].user # NoItem

\* C9 as stated: a completeOnboarding call made while signed out never
\* invokes startEngagementCampaign, and one made while signed in whose
\* persisted write succeeds invokes it exactly once, whatever signIn or
\* signOut overlaps it.
C9_GatedOnSignInAtCall ==
    [][\A t \in InFlight :
          (Finishes(t, "updateOnboardingStatus") /\ t.completed)
          => ret'.starts = IF t.signedInAtCall /\ ret'.res = "ok"
                           THEN 1 ELSE 0]_vars

\* C9 amended: completeOnboarding invokes startEngagementCampaign exactly
\* once if its persisted write succeeded and the user is signed in at the
\* moment the in-memory flag is committed, and never otherwise; the
\* invocation comes in a later step than the write and the commit.
C9_GatedOnSignInAtCommit ==
    [][\A t \in InFlight :
          /\ (Resumes(t, "updateOnboardingStatus", "saveOnboardingStatus")
               /\ t.completed)
             => /\ t.starts = 0
                /\ campaign' = campaign
                /\ IF t.io = "ok" /\ isSignedIn
                   THEN /\ isOnboardingCompleted'
                        /\ Becomes(t, [t EXCEPT !.pc = "notificationImport"])
                   ELSE /\ Finishes(t, "updateOnboardingStatus")
                        /\ ret'.op = "updateOnboardingStatus"
                        /\ ret'.starts = 0
          /\ Resumes(t, "updateOnboardingStatus", "notificationImport")
             => /\ Finishes(t, "updateOnboardingStatus")
                /\ campaign' = "started"
                /\ ret' = Outcome("updateOnboardingStatus", "ok", 1)]_vars

\* C9 witness: a completeOnboarding made while signed in has returned
\* having started the campaign once, with the flag committed.
C9_Witness ==
    /\ Quiescent
    /\ ret = Outcome("updateOnboardingStatus", "ok", 1)
    /\ isSignedIn
    /\ isOnboardingCompleted
    /\ campaign = "started"

\* C10: a signIn whose saveUser succeeded invokes every handler registered
\* for userSignedIn once per registration, in registration order; a signIn
\* that fails (on its id or on storage) invokes none.
C10_SignedInHandlersInOrder ==
    [][/\ \A t \in InFlight :
            Resumes(t, "signIn", "saveUser")
            => IF t.io = "ok"
               THEN dispatched' = [event |-> "userSignedIn",
                                   calls |-> listeners["userSignedIn"]]
               ELSE dispatched' = dispatched
       /\ \A userId \in {<< >>, <<"u", "1">>} :
            SignInCall(userId, Undefined, Undefined, Undefined)
            => dispatched' = dispatched]_vars

\* C10 witness: with h1 then h2 subscribed, a signIn has succeeded and the
\* latest emit invoked h1, then h2.
C10_Witness ==
    /\ listeners["userSignedIn"] = <<"h1", "h2">>
    /\ ret = Outcome("signIn", "ok", 0)
    /\ dispatched = [event |-> "userSignedIn", calls |-> <<"h1", "h2">>]

\* C11: a publish of an event returns normally and invokes every registered
\* handler, in registration order, whether or not handlers registered
\* earlier throw.
C11_ThrowingHandlerIsolated ==
    [][\A event \in BusEvents :
          EmitCall(event)
          => /\ ret' = Outcome("emit", "ok", 0)
             /\ dispatched' = [event |-> event, calls |-> listeners[event]]]_vars

\* C11 witness: the throwing handler h2 was registered before h1, the event
\* was published, both were invoked and emit returned.
C11_Witness ==
    /\ ret = Outcome("emit", "ok", 0)
    /\ "h2" \in ThrowingHandlers
    /\ listeners["userSignedIn"] = <<"h2", "h1">>
    /\ dispatched = [event |-> "userSignedIn", calls |-> <<"h2", "h1">>]

\* The number of registrations of `listener` in a listener array.
RECURSIVE Count(_, _)
Count(ls, listener) ==
    IF ls = << >> THEN 0
    ELSE (IF Head(ls) = listener THEN 1 ELSE 0) + Count(Tail(ls), listener)

\* C12 as stated: off(event, listener) leaves n - 1 registrations of a
\* listener registered n >= 1 times, and leaves the array unchanged when the
\* listener is not registered.
C12_OffRemovesOne ==
    [][\A event \in BusEvents, listener \in Handlers :
          Off(event, listener)
          => IF Count(listeners[event], listener) >= 1
             THEN Count(listeners'[event], listener)
                     = Count(listeners[event], listener) - 1
             ELSE listeners' = listeners]_vars

\* C13 as stated: in the state setStorageBackend(backend) returns in, the
\* in-memory state is what the new backend holds: currentUser is its user
\* record, isSignedIn tells whether it has one, isOnboardingCompleted is
\* its flag and userData its map.
C13_SwapReloadsBeforeReturning ==
    [][\A backend \in Backends :
          SetStorageBackend(backend)
          => /\ currentUser' = ParseUser(backends[backend].user)
             /\ isSignedIn' = (ParseUser(backends[backend].user) # NoUser)
             /\ isOnboardingCompleted'
                   = ParseOnboarding(backends[backend].onboarding)
             /\ userData' = ParseUserData(backends[backend].userData)]_vars

\* A step in which task t goes on after an await whose storage call was
\* issued to a backend that is no longer the manager's backend.
ResumesStale(t) ==
    /\ t.io # "pending"
    /\ t.backend # storageBackend
    /\ CopiesIn(t, tasks') < CopiesIn(t, tasks)

\* C14 as stated: an operation that resumes after an await issued to the
\* backend that has since been swapped out leaves the in-memory state
\* (currentUser, isSignedIn, isOnboardingCompleted, userData) unchanged.
C14_StaleResultNotApplied ==
    [][\A t \in InFlight : ResumesStale(t) => UNCHANGED mem]_vars

\* The persist steps of resetAllUserData the claim names.
ResetPersistSteps ==
    { "deleteUser", "saveOnboardingStatus", "saveUserData", "removeToken" }

\* C15 as stated: when a persist step of resetAllUserData has failed and the
\* call resumes, no in-memory field is assigned and the call ends by
\* throwing a StorageFailure (STORAGE_ERROR) to its caller.
C15_ResetAtomic ==
    [][\A t \in InFlight :
          ( /\ t.pc \in ResetPersistSteps
            /\ Resumes(t, "resetAllUserData", t.pc)
            /\ t.io = "fail" )
          => /\ UNCHANGED mem
             /\ Finishes(t, "resetAllUserData")
             /\ ret' = Outcome("resetAllUserData", "STORAGE_ERROR", 0)]_vars

\* C16: updateProfile called while there is no current user throws
\* NotSignedIn (NOT_SIGNED_IN) at once: no task is started, so no storage
\* call is issued, nothing is emitted, and the in-memory state and
\* everything persisted are unchanged.
C16_UpdateProfileNotSignedIn ==
    [][\A name \in ProfileNames, email \in ProfileEmails,
          avatarURL \in ProfileAvatarURLs :
          (currentUser = NoUser /\ UpdateProfileCall(name, email, avatarURL))
          => /\ ret' = Outcome("updateProfile", "NOT_SIGNED_IN", 0)
             /\ tasks' = tasks
             /\ UNCHANGED <<mem, disk, dispatched>>]_vars

\* C16 witness: updateProfile has thrown NotSignedIn on a manager without
\* a current user.
C16_Witness ==
    /\ ret = Outcome("updateProfile", "NOT_SIGNED_IN", 0)
    /\ currentUser = NoUser
    /\ ~isSignedIn
    /\ Quiescent

\* The user `updated` is `old` with the provided ones of name, email and
\* avatarURL replaced and every other field as it was.
OnlyProvidedChanged(updated, old, name, email, avatarURL) ==
    /\ updated.name = (IF name = Undefined THEN old.name ELSE name)
    /\ updated.email = (IF email = Undefined THEN old.email ELSE email)
    /\ updated.avatarURL
          = (IF avatarURL = Undefined THEN old.avatarURL ELSE avatarURL)
    /\ updated.id = old.id
    /\ updated.createdAt = old.createdAt
    /\ updated.lastLoginAt = old.lastLoginAt
    /\ updated.preferences = old.preferences
    /\ updated.customData = old.customData

\* C17: with calls made one after the other, the user an updateProfile call
\* sets out to save is currentUser with only the provided fields replaced;
\* currentUser stays as it was until saveUser has resolved; when it has
\* succeeded currentUser becomes that user, the persisted record reads back
\* as that user and the call returns; when it has failed currentUser is
\* unchanged and the call throws a StorageFailure (STORAGE_ERROR).
C17_UpdateProfileFrame ==
    [][/\ \A name \in ProfileNames, email \in ProfileEmails,
             avatarURL \in ProfileAvatarURLs :
             (currentUser # NoUser /\ UpdateProfileCall(name, email, avatarURL))
             => /\ currentUser' = currentUser
                /\ \A u \in BagToSet(tasks') :
                      OnlyProvidedChanged(u.user, currentUser,
                                          name, email, avatarURL)
       /\ \A t \in InFlight :
             /\ (t.op = "updateProfile" /\ t.io = "pending")
                => currentUser' = currentUser
             /\ (Resumes(t, "updateProfile", "saveUser") /\ t.io = "ok")
                => /\ currentUser' = t.user
                   /\ ParseUser(backends'[storageBackend].user) = t.user
                   /\ ret' = Outcome("updateProfile", "ok", 0)
             /\ (Resumes(t, "updateProfile", "saveUser") /\ t.io = "fail")
                => /\ currentUser' = currentUser
                   /\ ret' = Outcome("updateProfile", "STORAGE_ERROR", 0)]_vars

\* C17 witness: updateProfile(name only) has returned on a user signed in
\* without a name, and the user in memory and the persisted record both
\* carry the name with the other fields in place.
C17_Witness ==
    /\ Quiescent
    /\ ret = Outcome("updateProfile", "ok", 0)
    /\ currentUser # NoUser
    /\ currentUser.name = "Ann"
    /\ currentUser.email = "a@b.com"
    /\ currentUser.avatarURL = Undefined
    /\ currentUser.id = <<"u", "1">>
    /\ ParseUser(backends[storageBackend].user) = currentUser

\* C18: with calls made one after the other, when the read of
\* checkAuthenticationStatus has succeeded the call returns true if the
\* backend holds a user record and false if it holds none, isSignedIn is
\* the returned boolean and currentUser is the record read, or absent.
C18_CheckAuthenticationReflectsStorage ==
    [][\A t \in InFlight :
          (Resumes(t, "checkAuthenticationStatus", "loadUser") /\ t.io = "ok")
          => /\ Finishes(t, "checkAuthenticationStatus")
             /\ ret' = Outcome("checkAuthenticationStatus",
                               IF backends[storageBackend].user # NoItem
                               THEN "true" ELSE "false", 0)
             /\ isSignedIn' = (ret'.res = "true")
             /\ currentUser' = ParseUser(backends[storageBackend].user)
             /\ (currentUser' # NoUser) = isSignedIn']_vars

\* C18 witness: after a signOut that removed the persisted user and then
\* failed before its commit, checkAuthenticationStatus has returned false
\* and the manager is signed out.
C18_Witness ==
    /\ Quiescent
    /\ ret = Outcome("checkAuthenticationStatus", "false", 0)
    /\ backends[storageBackend].user = NoItem
    /\ ~isSignedIn
    /\ currentUser = NoUser
    /\ superwall # SuperwallUnset
    /\ superwall # SuperwallReset

\* C19 as stated: when the read of checkAuthenticationStatus has failed the
\* call returns false without throwing, and isSignedIn read right after the
\* return is the returned value.
C19_CheckAuthenticationFailureAgrees ==
    [][\A t \in InFlight :
          (Resumes(t, "checkAuthenticationStatus", "loadUser") /\ t.io = "fail")
          => /\ Finishes(t, "checkAuthenticationStatus")
             /\ ret' = Outcome("checkAuthenticationStatus", "false", 0)
             /\ isSignedIn' = (ret'.res = "true")]_vars

\* The awaits after which signIn, signOut, updateUserData,
\* completeOnboarding and resetAllUserData call the dependent services:
\* every one comes after the operation's commit.
AdapterSteps ==
    { "superwallImport", "getToken", "cleanupSuperwallImport",
      "cleanupNotificationImport", "notificationImport" }
OperationsWithAdapters ==
    { "signIn", "signOut", "updateUserData", "updateOnboardingStatus",
      "resetAllUserData" }

\* C20: whatever a dependent service does when one of these operations
\* calls it (attributes set or reset, campaign started or stopped, bearer
\* token set or cleared, session token looked up; succeeding or failing),
\* the step leaves the in-memory state and everything persisted as the
\* operation committed them, and an operation that ends there returns
\* normally (having at most logged an error): it throws nothing.
C20_AdapterFailuresContained ==
    [][\A t \in InFlight :
          ( /\ t.op \in OperationsWithAdapters
            /\ t.pc \in AdapterSteps
            /\ Resumes(t, t.op, t.pc) )
          => /\ UNCHANGED <<mem, disk>>
             /\ Finishes(t, t.op) => ret'.res \in {"ok", "swallowed"}]_vars

\* C20 witness: a signIn has returned normally with the user committed and
\* persisted although no attributes could be pushed to SuperwallService.
C20_Witness ==
    /\ Quiescent
    /\ ret = Outcome("signIn", "ok", 0)
    /\ isSignedIn
    /\ currentUser # NoUser
    /\ ParseUser(backends[storageBackend].user) = currentUser
    /\ superwall = SuperwallUnset
\* C21: updateUserData is fire-and-forget.  The public call returns with the
\* write of the merged map still pending and nothing changed; when that write
\* fails the call ends with the error logged, not raised, the in-memory
\* userData keeps its value and no event is published.
C21_UpdateUserDataFireAndForget ==
    [][/\ \A data \in [DataKeys -> DataVals] \cup UNION {[{k} -> DataVals] : k \in DataKeys} :
            UpdateUserData(data) =>
                /\ \E u \in BagToSet(tasks') :
                      /\ u.op = "updateUserData"
                      /\ u.pc = "saveUserData"
                      /\ u.io = "pending"
                      /\ u.updatedData = Merge(userData, data)
                /\ UNCHANGED <<mem, disk, dispatched, ret>>
       /\ \A t \in InFlight :
            (Resumes(t, "updateUserData", "saveUserData") /\ t.io = "fail") =>
                /\ Finishes(t, "updateUserData")
                /\ ret'.op = "updateUserData"
                /\ ret'.res = "swallowed"
                /\ userData' = userData
                /\ dispatched' = dispatched
                /\ UNCHANGED <<mem, disk>>]_vars

C21_Witness ==
    /\ Quiescent
    /\ ret = Outcome("updateUserData", "swallowed", 0)
    /\ userData = [k \in {"a"} |-> 1]
    /\ StoredUserData = [k \in {"a"} |-> 1]
    /\ dispatched = NoEmit

\* C22: the scenario.  From a just-constructed manager over empty storage,
\* with each call allowed to finish before the next is issued:
\* checkAuthenticationStatus returns false; signIn("u1", "a@b.com") succeeds
\* and leaves currentUser.id = "u1"; updateUserData({answer1: "yes"}) leaves
\* userData.answer1 = "yes"; completeOnboarding leaves isOnboardingCompleted
\* true with the campaign started exactly once; signOut leaves isSignedIn
\* false and isOnboardingCompleted true.
C22_Scenario ==
    [][\A t \in InFlight :
          /\ Finishes(t, "checkAuthenticationStatus") => ret'.res = "false"
          /\ (Finishes(t, "signIn") /\ ret'.res = "ok")
             => /\ isSignedIn'
                /\ currentUser' # NoUser
                /\ IF currentUser' # NoUser
                   THEN currentUser'.id = <<"u", "1">> ELSE FALSE
          /\ (Finishes(t, "updateUserData") /\ ret'.res = "ok")
             => /\ "a" \in DOMAIN userData'
                /\ IF "a" \in DOMAIN userData' THEN userData'["a"] = 1 ELSE FALSE
          /\ (Finishes(t, "updateOnboardingStatus") /\ ret'.res = "ok")
             => /\ isOnboardingCompleted'
                /\ ret'.starts = 1
                /\ campaign' = "started"
          /\ (Finishes(t, "signOut") /\ ret'.res = "ok")
             => /\ ~isSignedIn'
                /\ isOnboardingCompleted']_vars

\* The storage call task t awaits at `pc` completes (resolves or rejects).
Completes(t, op, pc) ==
    /\ t.op = op
    /\ Pending(t, pc)
    /\ CopiesIn(t, tasks') < CopiesIn(t, tasks)

\* C23 as stated: ... the bearer token is pushed to the request-auth adapter
\* if and only if a session token is stored when signIn looks it up, and
\* otherwise the adapter's token is left as it was.
C23_BearerTokenIffStored ==
    [][\A t \in InFlight :
          Resumes(t, "signIn", "getToken")
          => bearerToken' = IF asyncStorage.session_token # Absent
                            THEN asyncStorage.session_token
                            ELSE bearerToken]_vars

\* C23 amended: in a successful signIn the user record is persisted first
\* (nothing in memory, on the bus or in the adapters changes while saveUser
\* is awaited); then, in one step, currentUser and isSignedIn are committed
\* and userSignedIn is published (its payload is the committed user), the
\* adapters still untouched; then the attributes are pushed; and last the
\* bearer token is pushed if and only if the lookup of the session token
\* succeeded and found a token, the adapter's token being left as it was
\* when none is stored or the lookup failed.
C23_SignInOrder ==
    [][\A t \in InFlight :
          /\ Completes(t, "signIn", "saveUser")
             => UNCHANGED <<mem, bus, adapters, asyncStorage, ret>>
          /\ (Resumes(t, "signIn", "saveUser") /\ t.io = "ok")
             => /\ backends[t.backend].user = Item(StringifyUser(t.user))
                /\ currentUser' = t.user
                /\ isSignedIn'
                /\ dispatched' = Emit("userSignedIn")
                /\ Becomes(t, [t EXCEPT !.pc = "superwallImport"])
                /\ UNCHANGED <<adapters, disk, ret>>
          /\ Resumes(t, "signIn", "superwallImport")
             => /\ superwall'.user_id = currentUser.id
                /\ UNCHANGED <<mem, bus, bearerToken, disk, ret>>
          /\ Resumes(t, "signIn", "getToken")
             => /\ Finishes(t, "signIn")
                /\ ret'.res = "ok"
                /\ bearerToken' = IF t.io = "ok" /\ asyncStorage.session_token # Absent
                                  THEN asyncStorage.session_token
                                  ELSE bearerToken
                /\ UNCHANGED <<mem, bus, superwall, disk>>]_vars

\* C23 witness: a signIn has returned, the user committed and published,
\* and the stored token installed in a request-auth adapter that had none.
C23_Witness ==
    /\ Quiescent
    /\ ret = Outcome("signIn", "ok", 0)
    /\ isSignedIn
    /\ dispatched.event = "userSignedIn"
    /\ bearerToken = "tok"
    /\ backends[1].onboarding = NoItem

\* C24: completeOnboarding and resetOnboarding publish
\* onboardingStatusChanged only after the persisted write succeeded and in
\* the step that assigns the in-memory flag, so the handlers, which run in
\* that step, see isOnboardingCompleted equal to the payload (the call's
\* `completed`); neither the call itself nor the pending write publishes or
\* assigns anything; when the write fails the flag keeps its value, no event
\* is published and the error is logged.
C24_OnboardingPublishedAfterCommit ==
    [][/\ (CompleteOnboarding \/ ResetOnboarding)
          => UNCHANGED <<mem, bus, disk, ret>>
       /\ \A t \in InFlight :
          /\ Completes(t, "updateOnboardingStatus", "saveOnboardingStatus")
             => UNCHANGED <<mem, bus, ret>>
          /\ Resumes(t, "updateOnboardingStatus", "saveOnboardingStatus")
             => IF t.io = "ok"
                THEN /\ isOnboardingCompleted' = t.completed
                     /\ dispatched' = Emit("onboardingStatusChanged")
                ELSE /\ isOnboardingCompleted' = isOnboardingCompleted
                     /\ dispatched' = dispatched
                     /\ Finishes(t, "updateOnboardingStatus")
                     /\ ret'.res = "swallowed"
          /\ Resumes(t, "updateOnboardingStatus", "notificationImport")
             => UNCHANGED <<mem, bus>>]_vars

\* C24 witness: a resetOnboarding has returned after a subscribed handler
\* was invoked, the flag false in memory and in storage.
C24_Witness ==
    /\ Quiescent
    /\ ret.op = "updateOnboardingStatus"
    /\ ret.res = "ok"
    /\ dispatched = [event |-> "onboardingStatusChanged", calls |-> <<"h1">>]
    /\ ~isOnboardingCompleted
    /\ backends[1].onboarding = Item(StringifyBool(FALSE))

\* C25: createdAt is set once, at the first sign-in.  When signIn commits a
\* user whose id is the id of the user the manager already holds (no signOut
\* in between), the committed user keeps the createdAt of the held user and
\* carries the lastLoginAt taken at this call.
C25_CreatedAtSetOnce ==
    [][\A t \in InFlight :
          (/\ Resumes(t, "signIn", "saveUser")
           /\ t.io = "ok"
           /\ currentUser # NoUser
           /\ currentUser.id = t.user.id)
          => /\ currentUser'.lastLoginAt = t.user.lastLoginAt
             /\ currentUser'.createdAt = currentUser.createdAt]_vars

\* C26: removeUserData(k) removes k.  When the write started by
\* removeUserData(k) (the call that passes on the map without k) has
\* succeeded and the call commits, neither the in-memory userData nor the
\* persisted map contains k, and every other key keeps its value.
C26_RemoveUserDataRemoves ==
    [][\A t \in InFlight : \A k \in DataKeys :
          (/\ Resumes(t, "updateUserData", "saveUserData")
           /\ t.io = "ok"
           /\ k \in DOMAIN userData
           /\ t.data = Without(userData, k))
          => /\ k \notin DOMAIN userData'
             /\ k \notin DOMAIN StoredUserData
             /\ \A j \in (DOMAIN userData) \ {k} :
                   /\ j \in DOMAIN userData'
                   /\ userData'[j] = userData[j]]_vars

\* C27: quiescent write-through consistency.  Whenever no operation is in
\* flight, every storage call so far having succeeded, isSignedIn is true
\* exactly when the storage backend holds a user record, and that record is
\* currentUser; for every interleaving of overlapping signIn, signOut,
\* updateProfile and resetAllUserData calls.
C27_QuiescentWriteThrough ==
    Quiescent
    => /\ isSignedIn <=> (backends[storageBackend].user # NoItem)
       /\ isSignedIn => ParseUser(backends[storageBackend].user) = currentUser

\* C28: an operation that completed while the initial load was in flight is
\* not undone by it.  When loadInitialState assigns what it has read, the
\* last call to have returned successfully being a signIn, a
\* completeOnboarding or an updateUserData, the fields that call committed
\* (currentUser and isSignedIn; isOnboardingCompleted; userData) keep their
\* values.
C28_LoadDoesNotUndo ==
    [][\A t \in InFlight :
          (/\ Resumes(t, "loadInitialState", "loadUserData")
           /\ t.io = "ok"
           /\ ret.res = "ok")
          => /\ ret.op = "signIn"
                => /\ currentUser' = currentUser
                   /\ isSignedIn' = isSignedIn
             /\ ret.op = "updateOnboardingStatus"
                => isOnboardingCompleted' = isOnboardingCompleted
             /\ ret.op = "updateUserData"
                => userData' = userData]_vars

\* The event a step of task t publishes, "none" when it publishes nothing:
\* signIn, signOut and resetAllUserData each publish in the step that
\* follows their last storage call of the try block, if that call succeeded.
Publishes(t) ==
    IF t.io # "ok" THEN "none"
    ELSE IF t.op = "signIn" /\ t.pc = "saveUser" THEN "userSignedIn"
    ELSE IF t.op = "signOut" /\ t.pc = "removeToken" THEN "userSignedOut"
    ELSE IF t.op = "resetAllUserData" /\ t.pc = "removeLastSync" THEN "userDataReset"
    ELSE "none"

\* C29: handlers of the events the manager's operations publish observe
\* committed state.  The handlers run inside the publishing step, so they see
\* the fields as that step leaves them: for userSignedIn isSignedIn is true
\* and currentUser is the payload (the user signIn built); for userSignedOut
\* and userDataReset isSignedIn is false and currentUser is absent.  A step
\* that follows a failed storage call, and every other step, publishes
\* nothing.
C29_HandlersSeeCommittedState ==
    [][\A t \in InFlight :
          (t.io # "pending" /\ CopiesIn(t, tasks') < CopiesIn(t, tasks))
          => /\ Publishes(t) = "none" => dispatched' = dispatched
             /\ Publishes(t) # "none" => dispatched' = Emit(Publishes(t))
             /\ Publishes(t) = "userSignedIn"
                => isSignedIn' /\ currentUser' = t.user
             /\ Publishes(t) \in {"userSignedOut", "userDataReset"}
                => ~isSignedIn' /\ currentUser' = NoUser]_vars

\* C29 witness: a signOut overlapping a signIn has published userSignedOut to
\* the subscribed handler, with nobody signed in.
C29_Witness ==
    /\ dispatched = [event |-> "userSignedOut", calls |-> <<"h1">>]
    /\ ~isSignedIn
    /\ currentUser = NoUser
    /\ \E t \in InFlight : t.op = "signOut" /\ t.pc = "cleanupSuperwallImport"
    /\ \E t \in InFlight : t.op = "signIn"

\* C30: whenever no operation is in flight and isSignedIn is false, the
\* request-auth adapter holds no bearer token.
C30_NoBearerTokenSignedOut ==
    (Quiescent /\ ~isSignedIn) => bearerToken = Undefined

====
